---- MODULE Spec2Model ----
(***************************************************************************)
(* Model of the ECI Prometheus exporter: the registration-number parser,   *)
(* the threshold-table resolver, FetchAndUpdateMetrics and the polling     *)
(* loop of StartPolling.                                                   *)
(*                                                                         *)
(* A Go string is a sequence of one-character strings wherever the code    *)
(* looks at its characters (the regular expression, time.Parse,            *)
(* strings.ToLower); Join turns it into a TLA+ string where the code only  *)
(* uses it as a whole (a metric label, a map key).                         *)
(***************************************************************************)
EXTENDS Integers, Sequences, FiniteSets, TLC

VARIABLES
    Initiatives,     \* the registration numbers a polling loop was started for
    APIURL,          \* Application.APIURL
    server,          \* the remote API: which answers it gives: "any", "few", "changing"
    SignatureCount,  \* gauge eci_signatures: label pair -> value
    SignatureGoal,   \* gauge eci_signature_threshold: label pair -> value
    APIDurationVec,  \* histogram eci_api_duration_seconds: label -> observations
    requests,        \* the remote API: request path -> GETs received
    pc,              \* per initiative: position of its polling goroutine
    resp,            \* per initiative: what HTTPClient.Do returned
    idx,             \* per initiative: index of the range loop over the entries
    err,             \* per initiative: the error FetchAndUpdateMetrics returned
    fetches,         \* per initiative: calls of FetchAndUpdateMetrics so far
    tick,            \* per initiative: a tick is buffered in ticker.C
    ticks,           \* per initiative: ticks the ticker has fired so far
    lost,            \* per initiative: ticks that found ticker.C full
    last,            \* per initiative: the answer and the gauges of its last call
    interval,        \* the period of the tickers, in milliseconds
    timeout,         \* the timeout StartPolling is called with, in milliseconds
    stopped,         \* per initiative: ticker.Stop() has been called
    deadline,        \* per initiative: timeout of the live context, 0 when none is
    rnInput,         \* parser run: the string handed to ParseRegistrationNumber
    rnResult,        \* parser run: what ParseRegistrationNumber returned
    dateInput,       \* resolver run: the date handed to GetThresholds
    thResult         \* resolver run: what GetThresholds returned

appVars == <<Initiatives, APIURL, server, last, SignatureCount, SignatureGoal, APIDurationVec,
             requests, pc, resp, idx, err, fetches, tick, ticks, lost,
             interval, timeout, stopped, deadline>>
rnVars == <<rnInput, rnResult>>
thVars == <<dateInput, thResult>>
vars == <<appVars, rnVars, thVars>>

----------------------------------------------------------------------------
(* Characters and strings *)

UpperLetters == <<"A","B","C","D","E","F","G","H","I","J","K","L","M",
                  "N","O","P","Q","R","S","T","U","V","W","X","Y","Z">>
LowerLetters == <<"a","b","c","d","e","f","g","h","i","j","k","l","m",
                  "n","o","p","q","r","s","t","u","v","w","x","y","z">>
DigitChars == <<"0","1","2","3","4","5","6","7","8","9">>

Range(s) == {s[i] : i \in DOMAIN s}
IsUpper(c) == c \in Range(UpperLetters)
IsDigit(c) == c \in Range(DigitChars)
DigitVal(c) == (CHOOSE i \in DOMAIN DigitChars : DigitChars[i] = c) - 1

RECURSIVE Join(_)
Join(s) == IF s = <<>> THEN "" ELSE Head(s) \o Join(Tail(s))

\* the decimal value of a string of digits
RECURSIVE Atoi(_)
Atoi(s) == IF s = <<>> THEN 0 ELSE Atoi(SubSeq(s, 1, Len(s) - 1)) * 10 + DigitVal(s[Len(s)])

AllDigits(s, from, to) == \A i \in from..to : i \in DOMAIN s /\ IsDigit(s[i])

\* strings.ToLower on one character and on a string
LowerChar(c) ==
    IF IsUpper(c)
    THEN LowerLetters[CHOOSE i \in DOMAIN UpperLetters : UpperLetters[i] = c]
    ELSE c
ToLower(s) == [i \in DOMAIN s |-> LowerChar(s[i])]

----------------------------------------------------------------------------
(* registrationnumber.go *)

\* A Go error is the sequence of the words of its message; nil is no word.
\* fmt.Errorf("prefix: %w", cause) puts the prefix, a colon and the cause's words.
NoError == <<>>
Wrap(prefix, cause) == prefix \o <<":">> \o cause

\* strings.Contains(err.Error(), fragment), word by word
Contains(e, fragment) ==
    \E i \in 0..(Len(e) - Len(fragment)) : SubSeq(e, i + 1, i + Len(fragment)) = fragment

ErrInvalidRegistrationNumber == <<"invalid", "format">>

\* String with the year and the number in each other's place
StringSwapped(r) == r.Auth \o <<"(">> \o r.Number \o <<")">> \o r.Year

\* (*RegistrationNumber).String: fmt.Sprintf("%s(%s)%s", Auth, Year, Number)
String(r) == r.Auth \o <<"(">> \o r.Year \o <<")">> \o r.Number

\* the length of the longest run of upper-case letters s starts with: [A-Z]+ is
\* greedy, and what follows it, \(, is no letter, so the run is the only split
RECURSIVE UpperRun(_)
UpperRun(s) == IF s # <<>> /\ IsUpper(Head(s)) THEN 1 + UpperRun(Tail(s)) ELSE 0

\* the expression without its closing $: anything may follow the six digits
FindStringSubmatchUnanchored(s) ==
    LET n == UpperRun(s) IN
    IF /\ n >= 1
       /\ Len(s) >= n + 12
       /\ s[n + 1] = "("
       /\ AllDigits(s, n + 2, n + 5)
       /\ s[n + 6] = ")"
       /\ AllDigits(s, n + 7, n + 12)
    THEN <<SubSeq(s, 1, n + 12), SubSeq(s, 1, n), SubSeq(s, n + 2, n + 5), SubSeq(s, n + 7, n + 12)>>
    ELSE <<>>

\* re.FindStringSubmatch for ^([A-Z]+)\((\d{4})\)(\d{6})$ : the whole match and
\* the three groups, or no element when the string does not match
FindStringSubmatch(s) ==
    LET n == UpperRun(s) IN
    IF /\ n >= 1
       /\ Len(s) = n + 12
       /\ s[n + 1] = "("
       /\ AllDigits(s, n + 2, n + 5)
       /\ s[n + 6] = ")"
       /\ AllDigits(s, n + 7, n + 12)
    THEN <<s, SubSeq(s, 1, n), SubSeq(s, n + 2, n + 5), SubSeq(s, n + 7, n + 12)>>
    ELSE <<>>

NoRegistrationNumber == [Auth |-> <<>>, Year |-> <<>>, Number |-> <<>>]

\* ParseRegistrationNumber: ok is "the pointer is not nil"
ParseRegistrationNumber(rn) ==
    LET matches == FindStringSubmatch(rn) IN
    IF Len(matches) # 4
    THEN [ok |-> FALSE, rn |-> NoRegistrationNumber, err |-> ErrInvalidRegistrationNumber]
    ELSE [ok |-> TRUE,
          rn |-> [Auth |-> matches[2], Year |-> matches[3], Number |-> matches[4]],
          err |-> NoError]

----------------------------------------------------------------------------
(* Dates: time.Date, Time.After and time.Parse with the layout 02/01/2006 *)

\* time.Date(y, m, d, 0, 0, 0, 0, time.UTC): an instant at midnight UTC
Date(y, m, d) == [year |-> y, month |-> m, day |-> d]

\* t.After(u): t is strictly later than u
After(t, u) ==
    \/ t.year > u.year
    \/ t.year = u.year /\ t.month > u.month
    \/ t.year = u.year /\ t.month = u.month /\ t.day > u.day

IsLeap(y) == y % 4 = 0 /\ (y % 100 # 0 \/ y % 400 = 0)
DaysIn(m, y) ==
    IF m = 2 THEN (IF IsLeap(y) THEN 29 ELSE 28)
    ELSE IF m \in {4, 6, 9, 11} THEN 30 ELSE 31

ZeroTime == Date(1, 1, 1)

\* time.Parse without the range check of the day of the month
ParseDateAnyDay(s) ==
    IF /\ Len(s) = 10
       /\ AllDigits(s, 1, 2) /\ s[3] = "/"
       /\ AllDigits(s, 4, 5) /\ s[6] = "/"
       /\ AllDigits(s, 7, 10)
    THEN [ok |-> TRUE,
          time |-> Date(Atoi(SubSeq(s, 7, 10)), Atoi(SubSeq(s, 4, 5)), Atoi(SubSeq(s, 1, 2)))]
    ELSE [ok |-> FALSE, time |-> ZeroTime]

\* time.Parse("02/01/2006", s): two digits, '/', two digits, '/', four digits
\* and nothing else; the month and the day of the month are range-checked
ParseDate(s) ==
    IF /\ Len(s) = 10
       /\ AllDigits(s, 1, 2) /\ s[3] = "/"
       /\ AllDigits(s, 4, 5) /\ s[6] = "/"
       /\ AllDigits(s, 7, 10)
    THEN LET d == Atoi(SubSeq(s, 1, 2))
             m == Atoi(SubSeq(s, 4, 5))
             y == Atoi(SubSeq(s, 7, 10))
         IN IF m >= 1 /\ m <= 12 /\ d >= 1 /\ d <= DaysIn(m, y)
            THEN [ok |-> TRUE, time |-> Date(y, m, d)]
            ELSE [ok |-> FALSE, time |-> ZeroTime]
    ELSE [ok |-> FALSE, time |-> ZeroTime]

----------------------------------------------------------------------------
(* threshold.go *)

\* the table of threshold.go lines 21-49
Thresholds20240715 ==
    ("at" :> 14400) @@ ("be" :> 15840) @@ ("bg" :> 12240) @@ ("cy" :> 4320) @@
    ("cz" :> 15120) @@ ("dk" :> 10800) @@ ("ee" :> 5040) @@ ("fi" :> 10800) @@
    ("fr" :> 58320) @@ ("de" :> 69120) @@ ("gr" :> 15120) @@ ("hu" :> 15120) @@
    ("ie" :> 10080) @@ ("it" :> 54720) @@ ("lv" :> 6480) @@ ("lt" :> 7920) @@
    ("lu" :> 4320) @@ ("mt" :> 4320) @@ ("nl" :> 22320) @@ ("pl" :> 38160) @@
    ("pt" :> 15120) @@ ("ro" :> 23760) @@ ("sk" :> 10800) @@ ("si" :> 6480) @@
    ("es" :> 43920) @@ ("se" :> 15120) @@ ("hr" :> 8640)

\* the table of threshold.go lines 51-79
Thresholds20200201 ==
    ("at" :> 13395) @@ ("be" :> 14805) @@ ("bg" :> 11985) @@ ("cy" :> 4230) @@
    ("cz" :> 14805) @@ ("dk" :> 9870) @@ ("ee" :> 4935) @@ ("fi" :> 9870) @@
    ("fr" :> 55695) @@ ("de" :> 67680) @@ ("gr" :> 14805) @@ ("hu" :> 14805) @@
    ("ie" :> 9165) @@ ("it" :> 53580) @@ ("lv" :> 5640) @@ ("lt" :> 7755) @@
    ("lu" :> 4230) @@ ("mt" :> 4230) @@ ("nl" :> 20445) @@ ("pl" :> 36660) @@
    ("pt" :> 14805) @@ ("ro" :> 23265) @@ ("sk" :> 9870) @@ ("si" :> 5640) @@
    ("es" :> 41595) @@ ("se" :> 14805) @@ ("hr" :> 8460)

\* the table of threshold.go lines 81-110
Thresholds20200101 ==
    ("at" :> 13518) @@ ("be" :> 15771) @@ ("bg" :> 12767) @@ ("cy" :> 4506) @@
    ("cz" :> 15771) @@ ("dk" :> 9763) @@ ("ee" :> 4506) @@ ("fi" :> 9763) @@
    ("fr" :> 55574) @@ ("de" :> 72096) @@ ("gr" :> 15771) @@ ("hu" :> 15771) @@
    ("ie" :> 8261) @@ ("it" :> 54823) @@ ("lv" :> 6008) @@ ("lt" :> 8261) @@
    ("lu" :> 4506) @@ ("mt" :> 4506) @@ ("nl" :> 19526) @@ ("pl" :> 38301) @@
    ("pt" :> 15771) @@ ("ro" :> 24032) @@ ("sk" :> 9763) @@ ("si" :> 6008) @@
    ("es" :> 40554) @@ ("se" :> 15020) @@ ("gb" :> 54823) @@ ("hr" :> 8261)

\* the table of threshold.go lines 112-141
Thresholds20140701 ==
    ("at" :> 13500) @@ ("be" :> 15750) @@ ("bg" :> 12750) @@ ("cy" :> 4500) @@
    ("cz" :> 15750) @@ ("dk" :> 9750) @@ ("ee" :> 4500) @@ ("fi" :> 9750) @@
    ("fr" :> 55500) @@ ("de" :> 72000) @@ ("gr" :> 15750) @@ ("hu" :> 15750) @@
    ("ie" :> 8250) @@ ("it" :> 54750) @@ ("lv" :> 6000) @@ ("lt" :> 8250) @@
    ("lu" :> 4500) @@ ("mt" :> 4500) @@ ("nl" :> 19500) @@ ("pl" :> 38250) @@
    ("pt" :> 15750) @@ ("ro" :> 24000) @@ ("sk" :> 9750) @@ ("si" :> 6000) @@
    ("es" :> 40500) @@ ("se" :> 15000) @@ ("gb" :> 54750) @@ ("hr" :> 8250)

\* the table of threshold.go lines 143-172
Thresholds20120401 ==
    ("at" :> 14250) @@ ("be" :> 16500) @@ ("bg" :> 13500) @@ ("cy" :> 4500) @@
    ("cz" :> 16500) @@ ("dk" :> 9750) @@ ("ee" :> 4500) @@ ("fi" :> 9750) @@
    ("fr" :> 55500) @@ ("de" :> 74250) @@ ("gr" :> 16500) @@ ("hu" :> 16500) @@
    ("ie" :> 9000) @@ ("it" :> 54750) @@ ("lv" :> 6750) @@ ("lt" :> 9000) @@
    ("lu" :> 4500) @@ ("mt" :> 4500) @@ ("nl" :> 19500) @@ ("pl" :> 38250) @@
    ("pt" :> 16500) @@ ("ro" :> 24750) @@ ("sk" :> 9750) @@ ("si" :> 6000) @@
    ("es" :> 40500) @@ ("se" :> 15000) @@ ("gb" :> 54750) @@ ("hr" :> 9000)

\* a default case that falls back to the earliest table
DefaultToEarliest == Thresholds20120401

\* a nil Threshold map
NilThreshold == [k \in {} |-> 0]

\* th[key] on a Go map: the zero value when the key is missing (or the map nil)
Lookup(th, key) == IF key \in DOMAIN th THEN th[key] ELSE 0

\* the switch with "not before" where the code has "after"
GetThresholdsNotBefore(registrationDate) ==
    IF ~After(Date(2024, 7, 15), registrationDate) THEN Thresholds20240715
    ELSE IF ~After(Date(2020, 2, 1), registrationDate) THEN Thresholds20200201
    ELSE IF ~After(Date(2020, 1, 1), registrationDate) THEN Thresholds20200101
    ELSE IF ~After(Date(2014, 7, 1), registrationDate) THEN Thresholds20140701
    ELSE IF ~After(Date(2012, 4, 1), registrationDate) THEN Thresholds20120401
    ELSE NilThreshold

\* the switch of GetThresholds: the first case whose cutoff the date is after
GetThresholds(registrationDate) ==
    IF After(registrationDate, Date(2024, 7, 15)) THEN Thresholds20240715
    ELSE IF After(registrationDate, Date(2020, 2, 1)) THEN Thresholds20200201
    ELSE IF After(registrationDate, Date(2020, 1, 1)) THEN Thresholds20200101
    ELSE IF After(registrationDate, Date(2014, 7, 1)) THEN Thresholds20140701
    ELSE IF After(registrationDate, Date(2012, 4, 1)) THEN Thresholds20120401
    ELSE NilThreshold

----------------------------------------------------------------------------
(* eci.go: the remote API's answers and json.Decoder.Decode *)

MaxEntries == 2   \* longest entry list of a response
MaxFetches == 3   \* calls of FetchAndUpdateMetrics per initiative
MaxTicks == 3     \* ticks a ticker fires
MaxTicksEach == 1 \* ticks each ticker fires when several initiatives are polled

StatusOK == 200

\* An optional JSON member is <<>> when absent and <<v>> when present.
TextBody == [kind |-> "text", registrationDate |-> <<>>, sosReport |-> <<>>]
ArrayBody == [kind |-> "array", registrationDate |-> <<>>, sosReport |-> <<>>]
ObjectBody(date, report) == [kind |-> "object", registrationDate |-> date, sosReport |-> report]
\* a JSON object whose sosReport is no object (an array, a number)
MistypedBody(date) == [kind |-> "mistyped", registrationDate |-> date, sosReport |-> <<>>]

NL == <<"N", "L">>
GB == <<"g", "b">>
SOSEntry(cc, total) == [CountryCode |-> cc, Total |-> total]
ReportEntries == {SOSEntry(NL, 75811), SOSEntry(NL, 15), SOSEntry(GB, 15)}
EntryLists == UNION {[1..n -> ReportEntries] : n \in 0..MaxEntries}

RegistrationDates ==
    { <<"1","9","/","0","6","/","2","0","2","4">>,    \* the 2020-02-01 table
      <<"1","6","/","0","7","/","2","0","2","4">>,    \* the 2024-07-15 table
      <<"0","1","/","0","4","/","2","0","1","2">>,    \* no table
      <<"2","0","2","4","-","0","6","-","1","9">>,    \* not DD/MM/YYYY
      <<"3","1","/","0","2","/","2","0","2","4">>,    \* no day of the calendar
      <<"n","o","p","e">> }

Bodies ==
    {TextBody, ArrayBody,
     MistypedBody(<< <<"1","9","/","0","6","/","2","0","2","4">> >>),
     MistypedBody(<< <<"n","o","p","e">> >>)}
    \cup {ObjectBody(d, s) :
            d \in {<<>>} \cup {<<x>> : x \in RegistrationDates},
            s \in {<<>>, <<[entry |-> <<>>]>>} \cup {<<[entry |-> <<l>>]>> : l \in EntryLists}}

\* what HTTPClient.Do returns: an error, or a response with a status and a body
TransportError == [failed |-> TRUE, StatusCode |-> 0, Body |-> TextBody]
Response(status, body) == [failed |-> FALSE, StatusCode |-> status, Body |-> body]
NoResponse == [failed |-> FALSE, StatusCode |-> 0, Body |-> TextBody]

Responses ==
    {TransportError} \cup {Response(st, b) : st \in {StatusOK, 204, 500}, b \in Bodies}

\* a body whose read is cut off when the deadline of the call's context expires
DeadlineBody == [kind |-> "deadline", registrationDate |-> <<>>, sosReport |-> <<>>]
\* Do returns the context's error: the deadline expired before the headers came
DeadlineExceeded == [failed |-> TRUE, StatusCode |-> 0, Body |-> DeadlineBody]
\* what a call gets when its deadline expires: before the response headers
\* arrive, or after them while json.Decoder reads resp.Body
DeadlineAnswers == {DeadlineExceeded, Response(StatusOK, DeadlineBody)}

\* the answers of the remote API while several initiatives are polled at once
FewResponses ==
    { TransportError,
      Response(500, TextBody),
      Response(StatusOK, TextBody),
      Response(StatusOK, ObjectBody(<< <<"1","9","/","0","6","/","2","0","2","4">> >>,
                                    << [entry |-> << <<SOSEntry(NL, 75811)>> >>] >>)),
      Response(StatusOK, ObjectBody(<< <<"1","6","/","0","7","/","2","0","2","4">> >>,
                                    << [entry |-> << <<SOSEntry(NL, 15)>> >>] >>)) }

\* the answers of a remote API whose reports differ from call to call in the
\* countries they name, name a country twice, or name none
ChangingResponses ==
    { Response(500, TextBody),
      Response(StatusOK, ObjectBody(<< <<"1","9","/","0","6","/","2","0","2","4">> >>,
                                    << [entry |-> << <<SOSEntry(NL, 75811), SOSEntry(GB, 15)>> >>] >>)),
      Response(StatusOK, ObjectBody(<< <<"1","9","/","0","6","/","2","0","2","4">> >>,
                                    << [entry |-> << <<SOSEntry(NL, 75811), SOSEntry(NL, 15)>> >>] >>)),
      Response(StatusOK, ObjectBody(<< <<"1","6","/","0","7","/","2","0","2","4">> >>,
                                    << [entry |-> << <<SOSEntry(NL, 15)>> >>] >>)),
      Response(StatusOK, ObjectBody(<< <<"1","6","/","0","7","/","2","0","2","4">> >>,
                                    << [entry |-> << <<>> >>] >>)) }

ZeroProgressResponse == [RegistrationDate |-> <<>>, SOSReport |-> [Entries |-> <<>>]]

\* Decode with its error dropped: the zero value stands for a body that fails
DecodeIgnoringError(body) ==
    [ok |-> TRUE,
     data |-> [RegistrationDate |->
                   IF body.registrationDate = <<>> THEN <<>>
                   ELSE body.registrationDate[1],
               SOSReport |-> [Entries |->
                   IF body.sosReport = <<>> THEN <<>>
                   ELSE IF body.sosReport[1].entry = <<>> THEN <<>>
                   ELSE body.sosReport[1].entry[1]]]]

\* json.NewDecoder(resp.Body).Decode(&data): fails on text that is no JSON, on
\* a JSON value that is no object, on a member of the wrong type and on a read
\* that fails; a member the object lacks keeps its zero value, and the members
\* decoded before a member of the wrong type keep their values
Decode(body) ==
    [ok |-> body.kind = "object",
     data |-> [RegistrationDate |->
                   IF body.registrationDate = <<>> THEN <<>>
                   ELSE body.registrationDate[1],
               SOSReport |-> [Entries |->
                   IF body.sosReport = <<>> THEN <<>>
                   ELSE IF body.sosReport[1].entry = <<>> THEN <<>>
                   ELSE body.sosReport[1].entry[1]]]]

----------------------------------------------------------------------------
(* eci.go: FetchAndUpdateMetrics *)

ErrNon200 == <<"Non-200", "response">>
ErrMakeRequest == Wrap(<<"make", "request">>, <<"parse", "url">>)
ErrDoingRequest == Wrap(<<"err", "doing", "request">>, <<"transport">>)
ErrDecodeJSON == Wrap(<<"decode", "json">>, <<"invalid", "json">>)
ErrParseDate == Wrap(<<"cannot", "parse", "registration", "date">>, <<"parsing", "time">>)
\* context.DeadlineExceeded, and the errors of lines 131 and 148 that wrap it
ErrDeadlineExceeded == <<"context", "deadline", "exceeded">>
ErrDoingRequestDeadline == Wrap(<<"err", "doing", "request">>, ErrDeadlineExceeded)
ErrDecodeJSONDeadline == Wrap(<<"decode", "json">>, ErrDeadlineExceeded)

\* errors.Is(e, target) for an error that wraps nothing
ErrorIs(e, target) == e = target

R1 == ParseRegistrationNumber(
        <<"E","C","I","(","2","0","2","4",")","0","0","0","0","0","7">>).rn
R2 == ParseRegistrationNumber(
        <<"E","C","I","(","2","0","2","2",")","0","0","0","0","0","2">>).rn

GoodURL == "http://127.0.0.1:8080"
BadURL == "://127.0.0.1:8080"

\* a path that names the authority as well
PathWithAuth(rn) ==
    "/core/api/register/details/" \o Join(rn.Auth) \o "/" \o Join(rn.Year) \o "/" \o Join(rn.Number)

\* the path of line 113: the year and the number, not the authority
Path(rn) == "/core/api/register/details/" \o Join(rn.Year) \o "/" \o Join(rn.Number)
RequestURL(base, rn) == base \o Path(rn)

\* url.Parse inside http.NewRequestWithContext: a URL needs its scheme
URLParses(u) == u # RequestURL(BadURL, R1) /\ u # RequestURL(BadURL, R2)

\* a write that adds to the value of the series, as Gauge.Add does
SetAdding(g, l, v) == [x \in DOMAIN g \cup {l} |-> IF x = l THEN (IF l \in DOMAIN g THEN g[l] + v ELSE v) ELSE g[x]]

\* a write that leaves the gauge with the written series alone
SetAlone(g, l, v) == [x \in {l} |-> v]

\* GaugeVec.WithLabelValues(l).Set(v): the series is created when it is missing
Set(g, l, v) == [x \in DOMAIN g \cup {l} |-> IF x = l THEN v ELSE g[x]]

\* an observation that only creates the series and adds nothing to an existing one
ObserveFirst(h, l) == [x \in DOMAIN h \cup {l} |-> IF x \in DOMAIN h THEN h[x] ELSE 1]

\* Histogram.Observe on the series of label l, as a count of observations
Observe(h, l) == [x \in DOMAIN h \cup {l} |-> IF x \in DOMAIN h THEN (IF x = l THEN h[x] + 1 ELSE h[x]) ELSE 1]

\* label values that name the authority only, the same for every initiative
CountLabelsByAuth(rn, e) == <<Join(rn.Auth), Join(e.CountryCode)>>

\* the label values of lines 166 and 167
CountLabels(rn, e) == <<Join(String(rn)), Join(e.CountryCode)>>

\* the threshold gauge labelled with the lower-cased code it looks up
GoalLabelsLowered(rn, e) == <<Join(String(rn)), Join(ToLower(e.CountryCode))>>

GoalLabels(rn, e) == <<Join(String(rn)), Join(e.CountryCode)>>

\* the lookup of line 167 without strings.ToLower
GoalValueAsWritten(th, e) == Lookup(th, Join(e.CountryCode))

\* the value of line 167: th[MemberCountryCode(strings.ToLower(e.CountryCode))]
GoalValue(th, e) == Lookup(th, Join(ToLower(e.CountryCode)))

\* the checks with the body decoded before the status is looked at
FetchErrorDecodeFirst(response) ==
    IF response.failed THEN ErrDoingRequest
    ELSE IF ~Decode(response.Body).ok THEN ErrDecodeJSON
    ELSE IF response.StatusCode # StatusOK THEN ErrNon200
    ELSE IF ~ParseDate(Decode(response.Body).data.RegistrationDate).ok THEN ErrParseDate
    ELSE NoError

\* the checks with the registration date parsed before the decode error is
\* looked at
FetchErrorDateFirst(response) ==
    IF response.failed
    THEN IF response.Body = DeadlineBody THEN ErrDoingRequestDeadline ELSE ErrDoingRequest
    ELSE IF response.StatusCode # StatusOK THEN ErrNon200
    ELSE IF ~ParseDate(Decode(response.Body).data.RegistrationDate).ok THEN ErrParseDate
    ELSE IF ~Decode(response.Body).ok
    THEN IF response.Body = DeadlineBody THEN ErrDecodeJSONDeadline ELSE ErrDecodeJSON
    ELSE NoError

\* the error of lines 128-161 for what Do returned, nil when there is none
FetchError(response) ==
    IF response.failed
    THEN IF response.Body = DeadlineBody THEN ErrDoingRequestDeadline ELSE ErrDoingRequest
    ELSE IF response.StatusCode # StatusOK THEN ErrNon200
    ELSE IF ~Decode(response.Body).ok
    THEN IF response.Body = DeadlineBody THEN ErrDecodeJSONDeadline ELSE ErrDecodeJSON
    ELSE IF ~ParseDate(Decode(response.Body).data.RegistrationDate).ok THEN ErrParseDate
    ELSE NoError

\* the range loop entered before the registration date is parsed
ProjectsBeforeDate(response) ==
    /\ ~response.failed
    /\ response.StatusCode = StatusOK
    /\ Decode(response.Body).ok
    /\ Decode(response.Body).data.SOSReport.Entries # <<>>

\* the call reaches the range loop of line 165 with an entry to project
Projects(response) ==
    /\ FetchError(response) = NoError
    /\ Decode(response.Body).data.SOSReport.Entries # <<>>

\* the table taken from the year of the registration number
ThOfYear(r) == GetThresholds(Date(Atoi(r.Year), 12, 31))

\* the locals data, th of a call whose response decoded
Data(r) == Decode(resp[r].Body).data

\* the entries ranged over from the last to the first
EntriesBackwards(r) ==
    [i \in 1..Len(Data(r).SOSReport.Entries) |->
        Data(r).SOSReport.Entries[Len(Data(r).SOSReport.Entries) + 1 - i]]

Entries(r) == Data(r).SOSReport.Entries
Th(r) == GetThresholds(ParseDate(Data(r).RegistrationDate).time)

\* the answers the remote API may give to a request
ServerAnswers ==
    IF server = "few" THEN FewResponses
    ELSE IF server = "changing" THEN ChangingResponses
    ELSE Responses

\* what Do and the read of the body may give a call
Answers == ServerAnswers \cup DeadlineAnswers

\* lines 112-124: the URL, the request, the timer, and the request is sent
Call(r) ==
    /\ fetches[r] < MaxFetches
    /\ fetches' = [fetches EXCEPT ![r] = @ + 1]
    /\ resp' = [resp EXCEPT ![r] = NoResponse]
    /\ idx' = [idx EXCEPT ![r] = 0]
    /\ IF URLParses(RequestURL(APIURL, r))
       THEN /\ pc' = [pc EXCEPT ![r] = "do"]
            /\ err' = [err EXCEPT ![r] = NoError]
            /\ requests' = Observe(requests, Path(r))
       ELSE /\ pc' = [pc EXCEPT ![r] = "returned"]
            /\ err' = [err EXCEPT ![r] = ErrMakeRequest]
            /\ UNCHANGED requests
    /\ UNCHANGED <<Initiatives, APIURL, server, interval, timeout, stopped,
                   SignatureCount, SignatureGoal, APIDurationVec>>

\* lines 124-163: Do returns, the duration is observed, the status is checked,
\* the body decoded, the date parsed and the table resolved
Do(r) ==
    /\ pc[r] = "do"
    /\ \E response \in Answers :
        /\ resp' = [resp EXCEPT ![r] = response]
        /\ APIDurationVec' = Observe(APIDurationVec, Join(String(r)))
        /\ err' = [err EXCEPT ![r] = FetchError(response)]
        /\ IF Projects(response)
           THEN pc' = [pc EXCEPT ![r] = "setCount"] /\ idx' = [idx EXCEPT ![r] = 1]
           ELSE pc' = [pc EXCEPT ![r] = "returned"] /\ UNCHANGED idx
    /\ UNCHANGED <<Initiatives, APIURL, server, interval, timeout, stopped,
                   SignatureCount, SignatureGoal, requests, fetches, tick,
                   ticks, lost, deadline>>

\* line 166: the signatures gauge of the entry the loop is at
SetCount(r) ==
    /\ pc[r] = "setCount"
    /\ SignatureCount' = Set(SignatureCount, CountLabels(r, Entries(r)[idx[r]]),
                             Entries(r)[idx[r]].Total)
    /\ pc' = [pc EXCEPT ![r] = "setGoal"]
    /\ UNCHANGED <<Initiatives, APIURL, server, interval, timeout, stopped,
                   SignatureGoal, APIDurationVec, requests,
                   resp, idx, err, fetches, tick, ticks, lost, deadline>>

\* line 167, and the loop goes to its next entry or the call returns nil
SetGoal(r) ==
    /\ pc[r] = "setGoal"
    /\ SignatureGoal' = Set(SignatureGoal, GoalLabels(r, Entries(r)[idx[r]]),
                            GoalValue(Th(r), Entries(r)[idx[r]]))
    /\ IF idx[r] < Len(Entries(r))
       THEN pc' = [pc EXCEPT ![r] = "setCount"] /\ idx' = [idx EXCEPT ![r] = @ + 1]
       ELSE pc' = [pc EXCEPT ![r] = "returned"] /\ UNCHANGED idx
    /\ UNCHANGED <<Initiatives, APIURL, server, interval, timeout, stopped,
                   SignatureCount, APIDurationVec, requests,
                   resp, err, fetches, tick, ticks, lost, deadline>>

----------------------------------------------------------------------------
(* eci.go: StartPolling, one goroutine per initiative *)

\* a loop that receives a tick before its first call as well
StartPollingAfterTick(r) ==
    /\ pc[r] = "start"
    /\ tick[r]
    /\ tick' = [tick EXCEPT ![r] = FALSE]
    /\ deadline' = [deadline EXCEPT ![r] = timeout]
    /\ Call(r)
    /\ UNCHANGED <<ticks, lost>>

\* lines 196-197: the first call, made before any tick is awaited
StartPolling(r) ==
    /\ pc[r] = "start"
    /\ deadline' = [deadline EXCEPT ![r] = timeout]
    /\ Call(r)
    /\ UNCHANGED <<tick, ticks, lost>>

\* a loop that returns when a call has failed
CancelOrStop(r) ==
    /\ pc[r] = "returned"
    /\ pc' = [pc EXCEPT ![r] = IF err[r] = NoError THEN "wait" ELSE "stopped"]
    /\ resp' = [resp EXCEPT ![r] = NoResponse]
    /\ idx' = [idx EXCEPT ![r] = 0]
    /\ err' = [err EXCEPT ![r] = NoError]
    /\ deadline' = [deadline EXCEPT ![r] = 0]
    /\ UNCHANGED <<Initiatives, APIURL, server, interval, timeout, stopped,
                   SignatureCount, SignatureGoal, APIDurationVec,
                   requests, fetches, tick, ticks, lost>>

\* a loop that empties ticker.C when a call has returned
CancelDraining(r) ==
    /\ pc[r] = "returned"
    /\ pc' = [pc EXCEPT ![r] = "wait"]
    /\ resp' = [resp EXCEPT ![r] = NoResponse]
    /\ idx' = [idx EXCEPT ![r] = 0]
    /\ err' = [err EXCEPT ![r] = NoError]
    /\ deadline' = [deadline EXCEPT ![r] = 0]
    /\ tick' = [tick EXCEPT ![r] = FALSE]
    /\ UNCHANGED <<Initiatives, APIURL, server, interval, timeout, stopped,
                   SignatureCount, SignatureGoal, APIDurationVec,
                   requests, fetches, ticks, lost>>

\* lines 199 and 205: the call has returned, its error is dropped, cancel()
Cancel(r) ==
    /\ pc[r] = "returned"
    /\ pc' = [pc EXCEPT ![r] = "wait"]
    /\ resp' = [resp EXCEPT ![r] = NoResponse]
    /\ idx' = [idx EXCEPT ![r] = 0]
    /\ err' = [err EXCEPT ![r] = NoError]
    /\ deadline' = [deadline EXCEPT ![r] = 0]
    /\ UNCHANGED <<Initiatives, APIURL, server, interval, timeout, stopped,
                   SignatureCount, SignatureGoal, APIDurationVec,
                   requests, fetches, tick,
                   ticks, lost>>

\* the ticks the ticker of one initiative fires at most
TickBound == IF Cardinality(Initiatives) > 1 THEN MaxTicksEach ELSE MaxTicks

\* the ticker fires: ticker.C buffers one tick and a tick that finds it full is lost
Tick(r) ==
    /\ ~stopped[r]
    /\ ticks[r] < TickBound
    /\ ticks' = [ticks EXCEPT ![r] = @ + 1]
    /\ lost' = [lost EXCEPT ![r] = IF tick[r] THEN @ + 1 ELSE @]
    /\ tick' = [tick EXCEPT ![r] = TRUE]
    /\ UNCHANGED <<Initiatives, APIURL, server, interval, timeout, stopped,
                   SignatureCount, SignatureGoal, APIDurationVec,
                   requests, pc, resp, idx, err, fetches, deadline>>

\* a loop that gives the calls after the first twice the timeout
\* a loop that starts a call for a tick wherever the previous call is
NextTickPerTick(r) ==
    /\ pc[r] # "start"
    /\ tick[r]
    /\ tick' = [tick EXCEPT ![r] = FALSE]
    /\ deadline' = [deadline EXCEPT ![r] = timeout]
    /\ Call(r)
    /\ UNCHANGED <<ticks, lost>>

\* a loop whose received tick stays in the channel
NextTickKeepingTick(r) ==
    /\ pc[r] = "wait"
    /\ tick[r]
    /\ deadline' = [deadline EXCEPT ![r] = timeout]
    /\ Call(r)
    /\ UNCHANGED <<tick, ticks, lost>>

NextTickDoubling(r) ==
    /\ pc[r] = "wait"
    /\ tick[r]
    /\ tick' = [tick EXCEPT ![r] = FALSE]
    /\ deadline' = [deadline EXCEPT ![r] = 2 * timeout]
    /\ Call(r)
    /\ UNCHANGED <<ticks, lost>>

\* lines 201-203: the loop receives the buffered tick and calls again
NextTick(r) ==
    /\ pc[r] = "wait"
    /\ tick[r]
    /\ tick' = [tick EXCEPT ![r] = FALSE]
    /\ deadline' = [deadline EXCEPT ![r] = timeout]
    /\ Call(r)
    /\ UNCHANGED <<ticks, lost>>

InitiativeSets == {{}, {R1}, {R1, R2}}

\* 5 * time.Minute, the default of the -interval flag, in milliseconds
defaultInterval == 300000
\* the 100 * time.Millisecond of the polling test
testInterval == 100
\* the periods and the timeouts a loop is started with
Periods == {testInterval, defaultInterval}

\* a default initiative is polled when none is given
PolledOrDefault(initiatives) == IF initiatives = {} THEN {R1} ELSE initiatives

\* the registration numbers the range over the initiatives starts a polling
\* goroutine for
Polled(initiatives) == initiatives

\* the state of a gauge or histogram before its first write
Empty == <<>>
\* no call has returned yet, or the last one returned an error
NoLast == [resp |-> NoResponse, count |-> Empty, goal |-> Empty]

\* NewApplication for a set of initiatives and an API URL, a remote API, and
\* main starting one StartPolling per initiative
AppStart(initiatives, url, srv) ==
    /\ Initiatives = initiatives
    /\ APIURL = url
    /\ server = srv
    /\ SignatureCount = Empty
    /\ SignatureGoal = Empty
    /\ APIDurationVec = Empty
    /\ requests = Empty
    /\ pc = [r \in Polled(initiatives) |-> "start"]
    /\ resp = [r \in Polled(initiatives) |-> NoResponse]
    /\ idx = [r \in Polled(initiatives) |-> 0]
    /\ err = [r \in Polled(initiatives) |-> NoError]
    /\ fetches = [r \in Polled(initiatives) |-> 0]
    /\ tick = [r \in Polled(initiatives) |-> FALSE]
    /\ ticks = [r \in Polled(initiatives) |-> 0]
    /\ lost = [r \in Polled(initiatives) |-> 0]
    /\ last = [r \in Polled(initiatives) |-> NoLast]
    /\ stopped = [r \in Polled(initiatives) |-> FALSE]
    /\ deadline = [r \in Polled(initiatives) |-> 0]

\* the ticker period and the timeout the polling loops are started with
StartedWith(period, t) == interval = period /\ timeout = t

\* the remote API gives any answer to a single initiative and one of a few
\* when several initiatives are polled at once
InitApp ==
    /\ \E initiatives \in InitiativeSets, url \in {GoodURL, BadURL} :
          AppStart(initiatives, url, IF Cardinality(initiatives) > 1 THEN "few" ELSE "any")
    /\ StartedWith(defaultInterval, defaultInterval)

\* the parser and the resolver are not running
RnIdle == rnInput = <<>> /\ rnResult = [done |-> FALSE, ok |-> FALSE, rn |-> NoRegistrationNumber, err |-> NoError, str |-> <<>>]
ThIdle == dateInput = ZeroTime /\ thResult = [done |-> FALSE, th |-> NilThreshold]

Init == InitApp /\ RnIdle /\ ThIdle

Next ==
    \/ \E r \in DOMAIN pc : StartPolling(r) /\ UNCHANGED <<last, rnVars, thVars>>
    \/ \E r \in DOMAIN pc : Do(r) /\ UNCHANGED <<last, rnVars, thVars>>
    \/ \E r \in DOMAIN pc : SetCount(r) /\ UNCHANGED <<last, rnVars, thVars>>
    \/ \E r \in DOMAIN pc : SetGoal(r) /\ UNCHANGED <<last, rnVars, thVars>>
    \/ \E r \in DOMAIN pc : Cancel(r) /\ UNCHANGED <<last, rnVars, thVars>>
    \/ \E r \in DOMAIN pc : Tick(r) /\ UNCHANGED <<last, rnVars, thVars>>
    \/ \E r \in DOMAIN pc : NextTick(r) /\ UNCHANGED <<last, rnVars, thVars>>

Spec == Init /\ [][Next]_vars

----------------------------------------------------------------------------
(* The polling loop of one initiative, its goroutine scheduled fairly *)

InitLoop ==
    /\ \E url \in {GoodURL, BadURL} : AppStart({R1}, url, "few")
    /\ \E period \in Periods, t \in Periods : StartedWith(period, t)
    /\ RnIdle
    /\ ThIdle

\* the steps of the goroutine of r: the Go scheduler runs a goroutine that can
\* run, HTTPClient.Do returns, and a receive from ticker.C returns once a tick
\* is buffered
LoopStep(r) ==
    /\ r \in DOMAIN pc
    /\ StartPolling(r) \/ Do(r) \/ SetCount(r) \/ SetGoal(r) \/ Cancel(r) \/ NextTick(r)
    /\ UNCHANGED <<last, rnVars, thVars>>

SpecLoop == InitLoop /\ [][Next]_vars /\ WF_vars(LoopStep(R1))

----------------------------------------------------------------------------
(* The polling loop of one initiative whose ticker is stopped at some time *)

\* a Stop that leaves a tick that is buffered in ticker.C to be received
StopKeepingTick(r) ==
    /\ ~stopped[r]
    /\ stopped' = [stopped EXCEPT ![r] = TRUE]
    /\ UNCHANGED <<Initiatives, APIURL, server, interval, timeout, SignatureCount,
                   SignatureGoal, APIDurationVec, requests, pc, resp, idx, err, fetches,
                   tick, ticks, lost, deadline>>

\* ticker.Stop(), as the polling test calls it: no more ticks are sent, and
\* (timer channels of Go 1.23 and later, the build is on 1.24) a tick sent
\* before the call is not received after it
Stop(r) ==
    /\ ~stopped[r]
    /\ stopped' = [stopped EXCEPT ![r] = TRUE]
    /\ tick' = [tick EXCEPT ![r] = FALSE]
    /\ UNCHANGED <<Initiatives, APIURL, server, interval, timeout, SignatureCount,
                   SignatureGoal, APIDurationVec, requests, pc, resp, idx, err, fetches,
                   ticks, lost, deadline>>

NextStop ==
    \/ Next
    \/ \E r \in DOMAIN pc : Stop(r) /\ UNCHANGED <<last, rnVars, thVars>>

SpecStop == InitLoop /\ [][NextStop]_vars

----------------------------------------------------------------------------
(* One initiative polled with what each call left kept for the next *)

\* when a call has returned nil, the answer it got and the gauges it left
Record(r) ==
    last' = [last EXCEPT ![r] =
                IF err[r] = NoError
                THEN [resp |-> resp[r], count |-> SignatureCount, goal |-> SignatureGoal]
                ELSE NoLast]

InitTwice ==
    /\ AppStart({R1}, GoodURL, "changing")
    /\ StartedWith(defaultInterval, defaultInterval)
    /\ RnIdle
    /\ ThIdle

NextTwice ==
    \/ \E r \in DOMAIN pc : StartPolling(r) /\ UNCHANGED <<last, rnVars, thVars>>
    \/ \E r \in DOMAIN pc : Do(r) /\ UNCHANGED <<last, rnVars, thVars>>
    \/ \E r \in DOMAIN pc : SetCount(r) /\ UNCHANGED <<last, rnVars, thVars>>
    \/ \E r \in DOMAIN pc : SetGoal(r) /\ UNCHANGED <<last, rnVars, thVars>>
    \/ \E r \in DOMAIN pc : Cancel(r) /\ Record(r) /\ UNCHANGED <<rnVars, thVars>>
    \/ \E r \in DOMAIN pc : Tick(r) /\ UNCHANGED <<last, rnVars, thVars>>
    \/ \E r \in DOMAIN pc : NextTick(r) /\ UNCHANGED <<last, rnVars, thVars>>

SpecTwice == InitTwice /\ [][NextTwice]_vars

----------------------------------------------------------------------------
(* ParseRegistrationNumber and String on their own *)

\* the strings handed to the parser: a registration number put together from
\* well-formed and malformed parts
Prefixes == {<<>>, <<" ">>, <<"x">>}
AuthParts == {<<>>, <<"E">>, <<"E","C","I">>, <<"e","c","i">>, <<"E","c","I">>, <<"E","1">>}
OpenParts == {<<"(">>, <<>>, <<"(","(">>}
YearParts == {<<"2","0","2","4">>, <<"0","0","0","0">>, <<"n","o","p","e">>, <<>>,
              <<"2","0","2">>, <<"2","0","2","4","1">>, <<"2","0","2","x">>}
CloseParts == {<<")">>, <<>>}
NumberParts == {<<"0","0","0","0","0","7">>, <<"1","2","3","4","5","6">>, <<>>,
                <<"0","0","0","0","7">>, <<"0","0","0","0","0","0","7">>,
                <<"0","0","0","0","0","x">>}
Suffixes == {<<>>, <<" ">>, <<"\n">>, <<"7">>}

RnInputs ==
    {p \o a \o o \o y \o c \o n \o x :
        p \in Prefixes, a \in AuthParts, o \in OpenParts, y \in YearParts,
        c \in CloseParts, n \in NumberParts, x \in Suffixes}

RnStart ==
    /\ rnInput \in RnInputs
    /\ rnResult = [done |-> FALSE, ok |-> FALSE, rn |-> NoRegistrationNumber, err |-> NoError, str |-> <<>>]

\* the string is parsed and, when that succeeds, formatted again
Parse ==
    /\ ~rnResult.done
    /\ LET res == ParseRegistrationNumber(rnInput) IN
       rnResult' = [done |-> TRUE, ok |-> res.ok, rn |-> res.rn, err |-> res.err,
                    str |-> IF res.ok THEN String(res.rn) ELSE <<>>]
    /\ UNCHANGED rnInput

AppIdle ==
    /\ Initiatives = {}
    /\ APIURL = GoodURL
    /\ server = "few"
    /\ last = <<>>
    /\ SignatureCount = <<>>
    /\ SignatureGoal = <<>>
    /\ APIDurationVec = <<>>
    /\ requests = <<>>
    /\ pc = <<>>
    /\ resp = <<>>
    /\ idx = <<>>
    /\ err = <<>>
    /\ fetches = <<>>
    /\ tick = <<>>
    /\ ticks = <<>>
    /\ lost = <<>>
    /\ interval = defaultInterval
    /\ timeout = defaultInterval
    /\ stopped = <<>>
    /\ deadline = <<>>

NextParse == Parse /\ UNCHANGED <<appVars, thVars>>

InitParse == RnStart /\ AppIdle /\ ThIdle

SpecParse == InitParse /\ [][NextParse]_vars

----------------------------------------------------------------------------
(* GetThresholds on its own *)

YearsBefore == 1   \* years before the earliest cutoff's
YearsAfter == 1    \* years after the latest cutoff's

Years == (2012 - YearsBefore)..(2024 + YearsAfter)
Dates == {Date(y, m, d) : y \in Years, m \in 1..12, d \in 1..31}
CalendarDates == {t \in Dates : t.day <= DaysIn(t.month, t.year)}

ThStart ==
    /\ dateInput \in CalendarDates
    /\ thResult = [done |-> FALSE, th |-> NilThreshold]

Resolve ==
    /\ ~thResult.done
    /\ thResult' = [done |-> TRUE, th |-> GetThresholds(dateInput)]
    /\ UNCHANGED dateInput

NextThreshold == Resolve /\ UNCHANGED <<appVars, rnVars>>

InitThreshold == ThStart /\ AppIdle /\ RnIdle

SpecThreshold == InitThreshold /\ [][NextThreshold]_vars

----------------------------------------------------------------------------
(* Properties of the parser, checked under SpecParse *)

\* the shape letters(4 digits)6 digits, with k letters
HasShape(s, k) ==
    /\ k >= 1
    /\ Len(s) = k + 12
    /\ \A i \in 1..k : s[i] \in Range(UpperLetters)
    /\ s[k + 1] = "("
    /\ \A i \in (k + 2)..(k + 5) : s[i] \in Range(DigitChars)
    /\ s[k + 6] = ")"
    /\ \A i \in (k + 7)..(k + 12) : s[i] \in Range(DigitChars)
WellFormed(s) == \E k \in 1..Len(s) : HasShape(s, k)

\* C5: a string of one or more upper-case letters, '(' 4 digits ')' and 6
\* digits parses into exactly those three parts, and String() of the result
\* is the string again
C5_ParseRoundTrips ==
    rnResult.done =>
        \A k \in 1..Len(rnInput) :
            HasShape(rnInput, k) =>
                /\ rnResult.ok
                /\ rnResult.err = NoError
                /\ rnResult.rn.Auth = SubSeq(rnInput, 1, k)
                /\ rnResult.rn.Year = SubSeq(rnInput, k + 2, k + 5)
                /\ rnResult.rn.Number = SubSeq(rnInput, k + 7, k + 12)
                /\ rnResult.str = rnInput

C5_Witness ==
    /\ rnResult.done
    /\ rnInput = <<"E","C","I","(","2","0","2","4",")","0","0","0","0","0","7">>
    /\ rnResult.rn = [Auth |-> <<"E","C","I">>, Year |-> <<"2","0","2","4">>,
                      Number |-> <<"0","0","0","0","0","7">>]
    /\ rnResult.str = rnInput

\* C6: a string that does not have that shape as a whole is refused with the
\* 'invalid format' error and no RegistrationNumber
C6_MalformedIsInvalidFormat ==
    (rnResult.done /\ ~WellFormed(rnInput)) =>
        /\ ~rnResult.ok
        /\ rnResult.rn = NoRegistrationNumber
        /\ rnResult.err = ErrInvalidRegistrationNumber
        /\ Contains(rnResult.err, <<"invalid", "format">>)

C6_Witness ==
    /\ rnResult.done
    /\ rnInput = <<"E","C","I","(","2","0","2","4",")","0","0","0","0","0","7","\n">>
    /\ ~rnResult.ok
    /\ rnResult.err = ErrInvalidRegistrationNumber

----------------------------------------------------------------------------
(* Properties of the resolver, checked under SpecThreshold *)

\* the cutoffs of the claim and the table attached to each
CutoffTables ==
    { [cutoff |-> 20240715, table |-> Thresholds20240715],
      [cutoff |-> 20200201, table |-> Thresholds20200201],
      [cutoff |-> 20200101, table |-> Thresholds20200101],
      [cutoff |-> 20140701, table |-> Thresholds20140701],
      [cutoff |-> 20120401, table |-> Thresholds20120401] }
DayNumber(t) == t.year * 10000 + t.month * 100 + t.day
PassedCutoffs(t) == {c \in CutoffTables : DayNumber(t) > c.cutoff}
CountryKeys == UNION {DOMAIN c.table : c \in CutoffTables} \cup {"xx", "NL"}

\* C3: GetThresholds(d) is the table of the most recent cutoff d is strictly
\* after, and the empty table, every lookup 0, when d is after no cutoff
C3_TableOfMostRecentCutoff ==
    thResult.done =>
        IF PassedCutoffs(dateInput) = {}
        THEN /\ thResult.th = NilThreshold
             /\ \A k \in CountryKeys : Lookup(thResult.th, k) = 0
        ELSE \E c \in PassedCutoffs(dateInput) :
                /\ \A o \in PassedCutoffs(dateInput) : o.cutoff <= c.cutoff
                /\ thResult.th = c.table

\* a date equal to a cutoff has the next older table
C3_Witness ==
    /\ thResult.done
    /\ dateInput = Date(2020, 2, 1)
    /\ thResult.th = Thresholds20200101

----------------------------------------------------------------------------
(* Properties of FetchAndUpdateMetrics, checked under Spec *)

\* FetchAndUpdateMetrics of r has just returned
Returned(r) == pc[r] = "returned"
Succeeded(r) == Returned(r) /\ err[r] = NoError
\* the remote API answered the call of r with a status and a body
Answered(r) == Returned(r) /\ ~resp[r].failed /\ resp[r].StatusCode # 0

\* the series of a gauge for initiative r and the country code as the response has it
Series(r, cc) == <<Join(String(r)), Join(cc)>>
\* what the table resolved from the response's registrationDate has for the
\* lower-cased country code, 0 when it lacks the key
ResolvedThreshold(r, cc) ==
    Lookup(GetThresholds(ParseDate(Data(r).RegistrationDate).time), Join(ToLower(cc)))

EntryProjected(r, e) ==
    /\ Series(r, e.CountryCode) \in DOMAIN SignatureCount
    /\ SignatureCount[Series(r, e.CountryCode)] = e.Total
    /\ Series(r, e.CountryCode) \in DOMAIN SignatureGoal
    /\ SignatureGoal[Series(r, e.CountryCode)] = ResolvedThreshold(r, e.CountryCode)

\* C1 as claimed: after a successful fetch, for every entry (c, n) of the
\* response the signatures gauge of (R, c) holds n and the threshold gauge
\* holds the resolved table's value for the lower-cased c, or 0
C1_EveryEntryProjected ==
    \A r \in Initiatives :
        Succeeded(r) => \A i \in DOMAIN Entries(r) : EntryProjected(r, Entries(r)[i])

\* C1 as amended: the same for every entry that is the last one of the list
\* with its country code
C1_LastEntryProjected ==
    \A r \in Initiatives :
        Succeeded(r) =>
            \A i \in DOMAIN Entries(r) :
                (\A j \in DOMAIN Entries(r) :
                    j > i => Entries(r)[j].CountryCode # Entries(r)[i].CountryCode)
                => EntryProjected(r, Entries(r)[i])

C1_Witness ==
    /\ R1 \in Initiatives
    /\ Succeeded(R1)
    /\ Entries(R1) = <<SOSEntry(NL, 75811), SOSEntry(GB, 15)>>
    /\ SignatureCount[Series(R1, NL)] = 75811
    /\ SignatureGoal[Series(R1, NL)] = 22320
    /\ SignatureCount[Series(R1, GB)] = 15
    /\ SignatureGoal[Series(R1, GB)] = 0

\* the lower-cased forms of the country codes the remote API sends
LowerCasedCodes == {Join(ToLower(e.CountryCode)) : e \in ReportEntries}

\* C2: every series of eci_signatures and eci_signature_threshold carries a
\* country_code label that is the lower-cased form of a response's country code
C2_LabelsAreLowerCased ==
    \A l \in DOMAIN SignatureCount \cup DOMAIN SignatureGoal : l[2] \in LowerCasedCodes

\* C4: for ECI(2024)000007 with registrationDate 19/06/2024 and NL=75811 the
\* signatures gauge of NL is 75811 and the threshold gauge of NL is 20445, the
\* value of the table the registration date selects
C4_ThresholdOfRegistrationDate ==
    (/\ R1 \in Initiatives
     /\ Succeeded(R1)
     /\ Data(R1).RegistrationDate = <<"1","9","/","0","6","/","2","0","2","4">>
     /\ \E i \in DOMAIN Entries(R1) : Entries(R1)[i].CountryCode = NL
     /\ \A i \in DOMAIN Entries(R1) :
            Entries(R1)[i].CountryCode = NL => Entries(R1)[i].Total = 75811)
    => /\ SignatureCount[Series(R1, NL)] = 75811
       /\ SignatureGoal[Series(R1, NL)] = 20445
       /\ SignatureGoal[Series(R1, NL)] # 22320

C4_Witness ==
    /\ R1 \in Initiatives
    /\ Succeeded(R1)
    /\ Data(R1).RegistrationDate = <<"1","9","/","0","6","/","2","0","2","4">>
    /\ Entries(R1) = <<SOSEntry(NL, 75811)>>
    /\ SignatureCount[Series(R1, NL)] = 75811
    /\ SignatureGoal[Series(R1, NL)] = 20445

\* C7: an answer with a status other than 200 makes the call return ErrNon200,
\* whatever the body, and no decode or date error
C7_Non200IsErrNon200 ==
    \A r \in Initiatives :
        (Answered(r) /\ resp[r].StatusCode # 200) =>
            /\ ErrorIs(err[r], ErrNon200)
            /\ ~Contains(err[r], <<"decode", "json">>)
            /\ ~Contains(err[r], <<"parse", "registration", "date">>)

C7_Witness ==
    \E r \in Initiatives :
        /\ Answered(r)
        /\ resp[r].StatusCode = 204
        /\ resp[r].Body = TextBody
        /\ err[r] = ErrNon200

\* C8: a 200 answer whose body is not JSON makes the call return an error
\* whose message contains 'decode json'
C8_NotJSONIsDecodeError ==
    \A r \in Initiatives :
        (Answered(r) /\ resp[r].StatusCode = 200 /\ resp[r].Body.kind = "text") =>
            Contains(err[r], <<"decode", "json">>)

C8_Witness ==
    \E r \in Initiatives :
        /\ Answered(r)
        /\ resp[r].StatusCode = 200
        /\ resp[r].Body = TextBody
        /\ err[r] = ErrDecodeJSON

\* the registrationDate values that are no date in DD/MM/YYYY form
NotDates ==
    { <<"2","0","2","4","-","0","6","-","1","9">>,
      <<"3","1","/","0","2","/","2","0","2","4">>,
      <<"n","o","p","e">> }

\* C9: a 200 answer of well-formed JSON whose registrationDate is no date in
\* DD/MM/YYYY form makes the call return an error whose message contains
\* 'parse registration date', also when the entry list is not empty
C9_BadDateIsDateError ==
    \A r \in Initiatives :
        (/\ Answered(r)
         /\ resp[r].StatusCode = 200
         /\ resp[r].Body.kind = "object"
         /\ resp[r].Body.registrationDate # <<>>
         /\ resp[r].Body.registrationDate[1] \in NotDates)
        => Contains(err[r], <<"parse", "registration", "date">>)

C9_Witness ==
    \E r \in Initiatives :
        /\ Answered(r)
        /\ resp[r].StatusCode = 200
        /\ resp[r].Body.kind = "object"
        /\ resp[r].Body.registrationDate = << <<"3","1","/","0","2","/","2","0","2","4">> >>
        /\ Entries(r) # <<>>
        /\ err[r] = ErrParseDate

\* C10: a call that returns an error has written no gauge: it returns from the
\* request or from the handling of the answer, before the range loop, and no
\* step of a call up to there changes a series of either gauge
C10_FailedCallWritesNoGauge ==
    [][\A r \in Initiatives :
          /\ (pc[r] \in {"start", "wait", "do"} /\ pc'[r] # pc[r])
                => UNCHANGED <<SignatureCount, SignatureGoal>>
          /\ (pc[r] # "returned" /\ pc'[r] = "returned" /\ err'[r] # NoError)
                => (pc[r] \in {"start", "wait", "do"}
                    /\ UNCHANGED <<SignatureCount, SignatureGoal>>)]_vars

\* a failed call with gauges written by an earlier one
C10_Witness ==
    \E r \in Initiatives :
        /\ Returned(r)
        /\ err[r] = ErrParseDate
        /\ Series(r, NL) \in DOMAIN SignatureCount
        /\ SignatureCount[Series(r, NL)] = 75811

\* the observations of eci_api_duration_seconds on the series of initiative r
Observations(r) ==
    IF Join(String(r)) \in DOMAIN APIDurationVec THEN APIDurationVec[Join(String(r))] ELSE 0
\* the calls of r that have got past line 126
PastObserveDuration(r) == fetches[r] - (IF pc[r] = "do" THEN 1 ELSE 0)

\* C11 as claimed: every call of FetchAndUpdateMetrics for R has added exactly
\* one observation to the series of R once it is past the request, whatever
\* its outcome, a failure to construct the request included
C11_OneObservationPerCall ==
    \A r \in Initiatives : Observations(r) = PastObserveDuration(r)

\* C11 as amended: one observation per call whose request could be constructed,
\* whatever its outcome, and none for a call whose request could not be
C11_OneObservationPerRequest ==
    \A r \in Initiatives :
        Observations(r) = IF URLParses(RequestURL(APIURL, r)) THEN PastObserveDuration(r) ELSE 0

\* a third call that succeeded, and the series holds three observations
C11_Witness ==
    \E r \in Initiatives :
        /\ fetches[r] = 3
        /\ Succeeded(r)
        /\ Entries(r) # <<>>
        /\ Observations(r) = 3

\* the path the remote API is to be asked for: ECI(2024)000007 is asked for as
\* /core/api/register/details/2024/000007
DetailsPath(r) ==
    IF r = R1 THEN "/core/api/register/details/2024/000007"
    ELSE IF r = R2 THEN "/core/api/register/details/2022/000002"
    ELSE ""
\* the GETs the remote API has received for a path
Received(path) == IF path \in DOMAIN requests THEN requests[path] ELSE 0

\* C12 as claimed: the remote API has received exactly one GET per call of
\* FetchAndUpdateMetrics, on the path of the year and the number of its
\* registration number, and no request on any other path
C12_OneGetPerCall ==
    /\ \A r \in Initiatives : Received(DetailsPath(r)) = fetches[r]
    /\ DOMAIN requests \subseteq {DetailsPath(r) : r \in Initiatives}

\* C12 as amended: exactly one GET per call whose request could be constructed
\* and none for a call whose request could not be
C12_OneGetPerRequest ==
    /\ \A r \in Initiatives :
          Received(DetailsPath(r)) = IF URLParses(RequestURL(APIURL, r)) THEN fetches[r] ELSE 0
    /\ DOMAIN requests \subseteq {DetailsPath(r) : r \in Initiatives}

\* a second call after a first that failed: two GETs, one per call
C12_Witness ==
    /\ R1 \in Initiatives
    /\ fetches[R1] = 2
    /\ Returned(R1)
    /\ err[R1] = ErrDoingRequest
    /\ APIDurationVec = ("ECI(2024)000007" :> 2)
    /\ SignatureCount = <<>>
    /\ requests = ("/core/api/register/details/2024/000007" :> 2)

\* C13: StartPolling makes its first call at once: a loop at its start can
\* always take the step into its first call, tick or no tick, and that step
\* is call number one and takes no tick out of ticker.C
C13_FirstFetchBeforeAnyTick ==
    /\ [](\A r \in Initiatives :
            pc[r] = "start" => ENABLED (StartPolling(r) /\ UNCHANGED <<last, rnVars, thVars>>))
    /\ [][\A r \in Initiatives :
            (pc[r] = "start" /\ pc'[r] # "start")
                => (fetches'[r] = 1 /\ tick'[r] = tick[r] /\ ticks'[r] = ticks[r])]_vars

\* the first request is on its way and the ticker has not fired yet
C13_Witness ==
    \E r \in Initiatives :
        /\ pc[r] = "do"
        /\ fetches[r] = 1
        /\ ticks[r] = 0
        /\ ~tick[r]
        /\ Received(DetailsPath(r)) = 1

\* C14: whatever error a call returned, the loop goes on to wait for the
\* ticker without taking a tick out of ticker.C, and a loop that waits with a
\* tick delivered can always start its next call (up to MaxFetches calls)
C14_FailuresDoNotStopTheLoop ==
    /\ [](\A r \in Initiatives :
            /\ pc[r] = "returned" => ENABLED (Cancel(r) /\ UNCHANGED <<last, rnVars, thVars>>)
            /\ (pc[r] = "wait" /\ tick[r] /\ fetches[r] < MaxFetches)
                  => ENABLED (NextTick(r) /\ UNCHANGED <<last, rnVars, thVars>>))
    /\ [][\A r \in Initiatives :
            /\ (pc[r] = "returned" /\ pc'[r] # "returned")
                  => (pc'[r] = "wait" /\ tick'[r] = tick[r])
            /\ (pc[r] = "wait" /\ pc'[r] # "wait")
                  => (fetches'[r] = fetches[r] + 1 /\ pc'[r] \in {"do", "returned"})]_vars

\* a third call made after two calls in a row that failed
C14_Witness ==
    \E r \in Initiatives :
        /\ APIURL = BadURL
        /\ fetches[r] = 3
        /\ Returned(r)
        /\ err[r] = ErrMakeRequest
        /\ ticks[r] >= 2

\* C15: a loop that has started and whose ticker has lost no tick (every call
\* was over before the next tick) has made at least as many calls as the
\* ticker has fired ticks, at least 3 calls once the third tick has fired,
\* which is what a window longer than 3*T holds; and it keeps calling: once
\* two ticks have fired with none lost a third call is made, and a tick that
\* is delivered is taken for another call (up to MaxFetches calls)
C15_ThreeFetchesInThreePeriods ==
    /\ [](\A r \in Initiatives :
            (pc[r] # "start" /\ lost[r] = 0) =>
                /\ fetches[r] >= ticks[r]
                /\ ticks[r] >= 3 => fetches[r] >= 3
                /\ fetches[r] = 1 + ticks[r] - (IF tick[r] THEN 1 ELSE 0))
    /\ (ticks[R1] >= 2 /\ lost[R1] = 0) ~> (fetches[R1] >= 3)
    /\ (tick[R1] /\ fetches[R1] < MaxFetches) ~> ~tick[R1]

\* the third tick has fired with none lost and the third call is being made
C15_Witness ==
    \E r \in Initiatives :
        /\ ticks[r] = 3
        /\ lost[r] = 0
        /\ fetches[r] = 3
        /\ tick[r]
        /\ pc[r] = "do"

SameSeries(g, gAfter, l) ==
    /\ l \in DOMAIN g <=> l \in DOMAIN gAfter
    /\ l \in DOMAIN g => gAfter[l] = g[l]

\* C17: under every interleaving of the goroutines, a step of the fetch of
\* initiative R changes only series whose initiative_id is the canonical
\* string of R, and leaves the loop state, the call in progress and the ticker
\* of every other initiative as they are
C17_FetchTouchesOwnSeriesOnly ==
    [][\A r \in Initiatives :
          pc'[r] # pc[r] =>
              /\ \A o \in Initiatives \ {r} :
                    /\ pc'[o] = pc[o]
                    /\ resp'[o] = resp[o]
                    /\ idx'[o] = idx[o]
                    /\ err'[o] = err[o]
                    /\ fetches'[o] = fetches[o]
                    /\ tick'[o] = tick[o]
                    /\ Received(DetailsPath(o))' = Received(DetailsPath(o))
              /\ \A l \in DOMAIN SignatureCount \cup DOMAIN SignatureCount' :
                    l[1] # Join(String(r)) => SameSeries(SignatureCount, SignatureCount', l)
              /\ \A l \in DOMAIN SignatureGoal \cup DOMAIN SignatureGoal' :
                    l[1] # Join(String(r)) => SameSeries(SignatureGoal, SignatureGoal', l)
              /\ \A l \in DOMAIN APIDurationVec \cup DOMAIN APIDurationVec' :
                    l # Join(String(r)) => SameSeries(APIDurationVec, APIDurationVec', l)]_vars

\* the fetch of one initiative is writing its gauges while the request of the
\* other is on its way, each with series of an earlier fetch
C17_Witness ==
    /\ Initiatives = {R1, R2}
    /\ pc[R1] = "setGoal"
    /\ pc[R2] = "do"
    /\ fetches[R2] = 2
    /\ SignatureCount = (<<"ECI(2024)000007", "NL">> :> 75811) @@ (<<"ECI(2022)000002", "NL">> :> 15)
    /\ Series(R1, NL) \notin DOMAIN SignatureGoal
    /\ SignatureGoal[Series(R2, NL)] = 22320

\* the series line 166 or 167 is about to write for initiative r
Writing(r, at, l) ==
    /\ pc[r] = at
    /\ l = Series(r, Entries(r)[idx[r]].CountryCode)

\* C18: no step deletes a series of either gauge, and the value of a series
\* changes only in the write of an entry with its initiative and country: the
\* series of a country that the response of a fetch lacks keep the values
\* last written
C18_AbsentCountryKeepsItsSeries ==
    [][/\ \A l \in DOMAIN SignatureCount :
            /\ l \in DOMAIN SignatureCount'
            /\ SignatureCount'[l] # SignatureCount[l]
                  => \E r \in Initiatives : Writing(r, "setCount", l)
       /\ \A l \in DOMAIN SignatureGoal :
            /\ l \in DOMAIN SignatureGoal'
            /\ SignatureGoal'[l] # SignatureGoal[l]
                  => \E r \in Initiatives : Writing(r, "setGoal", l)]_vars

\* a successful fetch whose response names NL only, and the series of GB still
\* hold what an earlier response gave
C18_Witness ==
    \E r \in Initiatives :
        /\ Succeeded(r)
        /\ Entries(r) = <<SOSEntry(NL, 15)>>
        /\ SignatureCount[Series(r, NL)] = 15
        /\ Series(r, GB) \in DOMAIN SignatureCount
        /\ SignatureCount[Series(r, GB)] = 15
        /\ Series(r, GB) \in DOMAIN SignatureGoal

\* the cutoff of the earliest table, 2012-04-01, as the remote API writes it
FirstCutoff == <<"0","1","/","0","4","/","2","0","1","2">>

\* C19: a 200 answer of well-formed JSON whose registrationDate is not after
\* 2012-04-01 makes the call return no error, with the signatures gauge of
\* every entry written and the threshold gauge of every entry at 0
C19_BeforeFirstCutoffGoalIsZero ==
    \A r \in Initiatives :
        (/\ Answered(r)
         /\ resp[r].StatusCode = 200
         /\ resp[r].Body.kind = "object"
         /\ resp[r].Body.registrationDate = <<FirstCutoff>>)
        => /\ err[r] = NoError
           /\ \A i \in DOMAIN Entries(r) :
                 /\ Series(r, Entries(r)[i].CountryCode) \in DOMAIN SignatureCount
                 /\ \E j \in DOMAIN Entries(r) :
                       /\ Entries(r)[j].CountryCode = Entries(r)[i].CountryCode
                       /\ SignatureCount[Series(r, Entries(r)[i].CountryCode)] = Entries(r)[j].Total
                 /\ Series(r, Entries(r)[i].CountryCode) \in DOMAIN SignatureGoal
                 /\ SignatureGoal[Series(r, Entries(r)[i].CountryCode)] = 0

\* the threshold of NL is 0 after an earlier fetch had left it at 20445
C19_Witness ==
    \E r \in Initiatives :
        /\ Succeeded(r)
        /\ fetches[r] = 2
        /\ Data(r).RegistrationDate = FirstCutoff
        /\ Entries(r) = <<SOSEntry(NL, 75811)>>
        /\ SignatureCount[Series(r, NL)] = 75811
        /\ SignatureGoal[Series(r, NL)] = 0

\* C20: a successful fetch that got the response the successful fetch before
\* it got leaves both gauges exactly as that fetch left them
C20_SameResponseSameGauges ==
    \A r \in Initiatives :
        (Succeeded(r) /\ last[r].resp = resp[r]) =>
            /\ SignatureCount = last[r].count
            /\ SignatureGoal = last[r].goal

\* twice the same response, one that names NL twice and GB not at all, after
\* a first response had created the series of GB
C20_Witness ==
    /\ Succeeded(R1)
    /\ fetches[R1] = 3
    /\ last[R1].resp = resp[R1]
    /\ Entries(R1) = <<SOSEntry(NL, 75811), SOSEntry(NL, 15)>>
    /\ SignatureCount = (<<"ECI(2024)000007", "NL">> :> 15) @@ (<<"ECI(2024)000007", "gb">> :> 15)
    /\ SignatureGoal = last[R1].goal

\* the outcomes a caller tells apart by the returned error
Outcomes(e) ==
    {o \in {"success", "make request", "transport", "non-200", "decode", "date"} :
        \/ o = "success" /\ e = NoError
        \/ o = "make request" /\ Contains(e, <<"make", "request">>)
        \/ o = "transport" /\ Contains(e, <<"err", "doing", "request">>)
        \/ o = "non-200" /\ ErrorIs(e, ErrNon200)
        \/ o = "decode" /\ Contains(e, <<"decode", "json">>)
        \/ o = "date" /\ Contains(e, <<"cannot", "parse", "registration", "date">>)}

\* C21: a call that has returned has exactly one of the six outcomes; an
\* answer with a status other than 200 is the non-200 failure also when its
\* body cannot be decoded, and a 200 answer whose body cannot be decoded is
\* the decode failure also when its registrationDate is no date
C21_OneOutcomeInOrder ==
    \A r \in Initiatives :
        Returned(r) =>
            /\ Cardinality(Outcomes(err[r])) = 1
            /\ (Answered(r) /\ resp[r].StatusCode # 200) => Outcomes(err[r]) = {"non-200"}
            /\ (Answered(r) /\ resp[r].StatusCode = 200 /\ resp[r].Body.kind # "object")
                  => Outcomes(err[r]) = {"decode"}
            /\ (~Answered(r) /\ resp[r].failed) => Outcomes(err[r]) = {"transport"}
            /\ (~Answered(r) /\ ~resp[r].failed) => Outcomes(err[r]) = {"make request"}

\* a 200 answer whose sosReport is of the wrong type and whose registrationDate
\* is no date: the decode failure
C21_Witness ==
    \E r \in Initiatives :
        /\ Answered(r)
        /\ resp[r].StatusCode = 200
        /\ resp[r].Body = MistypedBody(<< <<"n","o","p","e">> >>)
        /\ err[r] = ErrDecodeJSON
        /\ Outcomes(err[r]) = {"decode"}

\* a body of valid JSON that has not the shape {registrationDate, sosReport:
\* {entry: [...]}}: no object, a member of the wrong type, or an object
\* without sosReport or without its entry list
WrongShape(body) ==
    \/ body.kind \in {"array", "mistyped"}
    \/ body.kind = "object" /\ body.sosReport = <<>>
    \/ body.kind = "object" /\ body.sosReport # <<>> /\ body.sosReport[1].entry = <<>>

\* C22: a 200 answer whose body is valid JSON of the wrong shape makes the
\* call return the decode failure
C22_WrongShapeIsDecodeError ==
    \A r \in Initiatives :
        (Answered(r) /\ resp[r].StatusCode = 200 /\ WrongShape(resp[r].Body))
            => Contains(err[r], <<"decode", "json">>)

\* C23: a call whose deadline expired while it was in progress, before the
\* response headers arrived or while the body was read, has returned the
\* transport failure
C23_DeadlineIsTransportFailure ==
    \A r \in Initiatives :
        (Returned(r) /\ resp[r] \in DeadlineAnswers) => Outcomes(err[r]) = {"transport"}

\* a call of FetchAndUpdateMetrics for r has been started and its context not
\* yet cancelled
InCall(r) == pc[r] \in {"do", "setCount", "setGoal", "returned"}

\* C24 as claimed: the deadline a fetch of the polling loop runs under is no
\* longer than one polling interval, whatever ticker and timeout the loop was
\* started with
C24_DeadlineWithinInterval ==
    \A r \in Initiatives : InCall(r) => deadline[r] <= interval

\* C24 as amended: the deadline of every fetch is the timeout StartPolling was
\* called with, and so no longer than one interval when that timeout is not
C24_DeadlineIsTheTimeout ==
    \A r \in Initiatives :
        /\ InCall(r) => deadline[r] = timeout
        /\ ~InCall(r) => deadline[r] = 0
        /\ (InCall(r) /\ timeout <= interval) => deadline[r] <= interval

\* the second call of a loop started as the polling test starts it
C24_Witness ==
    /\ interval = testInterval
    /\ timeout = testInterval
    /\ pc[R1] = "do"
    /\ fetches[R1] = 2
    /\ deadline[R1] = 100

----------------------------------------------------------------------------
(* C25 *)

LoopPositions == {"start", "do", "setCount", "setGoal", "returned", "wait"}

----------------------------------------------------------------------------
(* C26 *)

\* the dates GetThresholds resolves to the table of the earliest cutoff
InEarliestRule(t) == After(t, Date(2012, 4, 1)) /\ ~After(t, Date(2014, 7, 1))

\* C26: the table of the earliest cutoff (2012-04-01) lacks at least one
\* country code that the table of a later cutoff contains: whenever the
\* resolver has returned the earliest table, some later date resolves to a
\* table with a code the returned one has not.
C26_EarliestTableLacksALaterCode ==
    (thResult.done /\ InEarliestRule(dateInput)) =>
        \E t \in CalendarDates :
            /\ After(t, dateInput)
            /\ DOMAIN GetThresholds(t) \ DOMAIN thResult.th # {}

----------------------------------------------------------------------------
(* C27 *)

\* C27: for one initiative at most one fetch is in progress at any time: a
\* step that starts a fetch is taken where no fetch is in progress, either
\* before the first one or at the wait for a tick, where the previous fetch
\* has returned and its context has been cancelled (no deadline is running
\* and nothing of the previous call is kept); and a fetch in progress is
\* only changed by its own steps.  Ticks sent during a fetch change nothing
\* of that.
C27_OneFetchAtATime ==
    [][\A r \in Initiatives :
          /\ fetches'[r] # fetches[r] =>
                /\ fetches'[r] = fetches[r] + 1
                /\ ~InCall(r)
                /\ deadline[r] = 0 /\ resp[r] = NoResponse /\ err[r] = NoError
                /\ pc[r] = "start" <=> fetches[r] = 0
          /\ InCall(r) => deadline[r] = timeout]_vars

\* a second fetch that began after a first one that lasted longer than two
\* tick periods
C27_Witness ==
    /\ pc[R1] = "do" /\ fetches[R1] = 2
    /\ ticks[R1] = 2 /\ lost[R1] = 1 /\ ~tick[R1]

----------------------------------------------------------------------------
(* C28 *)

\* the ticks waiting in ticker.C of r: none or one
Pending(r) == IF tick[r] THEN 1 ELSE 0

\* C28: ticks that fire while a fetch is running are not queued: at most one
\* tick is pending at any time, every other one sent meanwhile is dropped,
\* so the fetch attempts of a loop never exceed the ticks fired plus one:
\* past the first call, attempts, pending and dropped ticks add up to the
\* ticks fired plus one, and a tick starts at most one fetch.
C28_TicksAreNotQueued ==
    \A r \in Initiatives :
        /\ Pending(r) <= 1
        /\ fetches[r] <= ticks[r] + 1
        /\ pc[r] # "start" => fetches[r] + Pending(r) + lost[r] = ticks[r] + 1
        /\ pc[r] = "start" => fetches[r] = 0 /\ Pending(r) + lost[r] = ticks[r]

\* three ticks fired during the first fetch: one was pending when it
\* returned and started the second fetch, after which none is left
C28_Witness ==
    /\ fetches[R1] = 2 /\ pc[R1] = "wait" /\ ~tick[R1]
    /\ ticks[R1] = 3 /\ lost[R1] = 2

----------------------------------------------------------------------------
(* C29 *)

\* the initiatives between the two Set calls of one entry
Projecting == {r \in Initiatives : pc[r] = "setGoal"}

\* C29: in every state where no projection is in progress the label pairs
\* (initiative_id, country_code) present in eci_signatures are those present
\* in eci_signature_threshold; while initiatives are between the two Set
\* calls of an entry, the signatures gauge has at most their entries' pairs
\* more and the threshold gauge has none more.
C29_SameLabelPairs ==
    /\ Projecting = {} => DOMAIN SignatureCount = DOMAIN SignatureGoal
    /\ DOMAIN SignatureGoal \subseteq DOMAIN SignatureCount
    /\ DOMAIN SignatureCount \ DOMAIN SignatureGoal \subseteq
           {CountLabels(r, Entries(r)[idx[r]]) : r \in Projecting}

\* both initiatives have projected a report and neither is projecting
C29_Witness ==
    /\ Initiatives = {R1, R2}
    /\ \A r \in Initiatives : pc[r] \in {"returned", "wait"}
    /\ \A r \in Initiatives : \E c \in {"NL", "GB", "gb"} :
           <<Join(String(r)), c>> \in DOMAIN SignatureCount \cap DOMAIN SignatureGoal

----------------------------------------------------------------------------
(* C30 *)

\* the entry list of the response of r's call, in the order of the response
Report(r) == Decode(resp[r].Body).data.SOSReport.Entries

\* how many entries of the report r's call has written the signatures gauge
\* for: those before the one the loop is at, that one as well once line 166
\* has run, all of them when the call has returned nil
Written(r) ==
    IF pc[r] = "setCount" THEN idx[r] - 1
    ELSE IF pc[r] = "setGoal" THEN idx[r]
    ELSE IF pc[r] = "returned" /\ err[r] = NoError /\ resp[r] # NoResponse
         THEN Len(Report(r))
    ELSE 0

\* C30: the entries of a report are projected in the order they appear in
\* the response: at every point of the range loop and after it, the
\* signatures gauge of a country the loop has passed holds the total of the
\* last entry passed with that country code, so that a country listed more
\* than once ends with the total of its last entry.
C30_ProjectedInResponseOrder ==
    \A r \in Initiatives :
        \A i \in 1..Written(r) :
            (\A j \in (i + 1)..Written(r) :
                Report(r)[j].CountryCode # Report(r)[i].CountryCode)
            => /\ CountLabels(r, Report(r)[i]) \in DOMAIN SignatureCount
               /\ SignatureCount[CountLabels(r, Report(r)[i])] = Report(r)[i].Total

\* a report that lists NL twice has been projected: the gauge holds the
\* second total
C30_Witness ==
    /\ R1 \in Initiatives
    /\ pc[R1] = "returned" /\ err[R1] = NoError
    /\ Written(R1) = 2
    /\ Report(R1)[1].CountryCode = Report(R1)[2].CountryCode
    /\ Report(R1)[1].Total = 75811
    /\ Report(R1)[2].Total = 15
    /\ SignatureCount[CountLabels(R1, Report(R1)[2])] = 15

====
